---------------------------- MODULE Spec2Model ----------------------------
(***************************************************************************)
(* Nanotech Atmospheric Water Harvesting Studio (nano_awh_studio.py).      *)
(*                                                                         *)
(* The program is a Streamlit script: every widget interaction reruns the  *)
(* whole script from the top with the widgets' current values, and the     *)
(* page it writes replaces the previous page.  The state is therefore the  *)
(* widgets' values and the page of the last run.                           *)
(*                                                                         *)
(* Numbers.  The script computes in IEEE-754 binary64.  The model computes *)
(* every operation exactly, on unsigned rationals n/d of arbitrary size,   *)
(* and keeps binary64's RANGE: a result at or above 2^1024 - 2^970 becomes *)
(* inf, x/0 is inf, and 0/0, inf/inf, inf*0 are nan, as numpy.float64      *)
(* does (the catalog row's fields are numpy scalars, so a division by zero *)
(* does not raise).  Rounding inside the range and underflow are not       *)
(* modelled.  Integers of arbitrary size are little-endian sequences of    *)
(* limbs in 0..Base-1, without leading zero limbs; zero is <<>>.           *)
(***************************************************************************)
EXTENDS Integers, Sequences, FiniteSets, TLC

VARIABLES
    \* the sidebar widgets' values (session state)
    material_choice, m_sorbent, rh, temp, cycles, country_choice,
    bottled_price,
    \* what the last run of the script wrote
    page,
    \* one call of a function of the script on arguments of its own: the
    \* function, its arguments, whether it has returned, and its result
    call

vars == <<material_choice, m_sorbent, rh, temp, cycles, country_choice,
          bottled_price, page, call>>

----------------------------------------------------------------------------
(* Natural numbers of arbitrary size *)

\* the limb base: a choice of representation (a sum of two thousand products
\* of limbs fits a machine integer)
Base == 10 * 100

Min2(i, j) == IF i <= j THEN i ELSE j
Max2(i, j) == IF i >= j THEN i ELSE j

\* limb i of a, 0 beyond its length
Limb(a, i) == IF 1 <= i /\ i <= Len(a) THEN a[i] ELSE 0

RECURSIVE BFromInt(_)
BFromInt(k) == IF k = 0 THEN <<>> ELSE <<k % Base>> \o BFromInt(k \div Base)

\* the place of the highest limb of x that is not 0; 0 when there is none
BTop(x) ==
    IF \A i \in 1..Len(x) : x[i] = 0 THEN 0
    ELSE CHOOSE m \in 1..Len(x) :
             x[m] # 0 /\ \A j \in (m + 1)..Len(x) : x[j] = 0

BTrim(x) == SubSeq(x, 1, BTop(x))

\* x is a sequence of integers, limb i worth x[i] * Base^(i-1): each limb keeps
\* its residue and hands the rest to the next one, until all are in 0..Base-1
BCarry(x) ==
    [i \in 1..(Len(x) + 1) |-> (Limb(x, i) % Base) + (Limb(x, i - 1) \div Base)]

RECURSIVE BNorm(_)
BNorm(x) ==
    IF \A i \in 1..Len(x) : 0 <= x[i] /\ x[i] < Base
    THEN BTrim(x)
    ELSE BNorm(BCarry(x))

BAdd(a, b) ==
    BNorm([i \in 1..Max2(Len(a), Len(b)) |-> Limb(a, i) + Limb(b, i)])

\* a - b, for b <= a
BSub(a, b) == BNorm([i \in 1..Len(a) |-> a[i] - Limb(b, i)])

\* the sum over i in lo..hi of a[i] * b[k + 1 - i]
RECURSIVE ConvSum(_, _, _, _, _)
ConvSum(a, b, k, lo, hi) ==
    IF lo > hi THEN 0
    ELSE IF lo = hi THEN a[lo] * b[k + 1 - lo]
    ELSE ConvSum(a, b, k, lo, (lo + hi) \div 2)
         + ConvSum(a, b, k, (lo + hi) \div 2 + 1, hi)

BMul(a, b) ==
    IF a = <<>> \/ b = <<>> THEN <<>>
    ELSE BNorm([k \in 1..(Len(a) + Len(b) - 1) |->
                  ConvSum(a, b, k, Max2(1, k + 1 - Len(b)), Min2(k, Len(a)))])

BLessAt(a, b, m) == m # 0 /\ a[m] < b[m]

BLess(a, b) ==
    IF Len(a) # Len(b) THEN Len(a) < Len(b)
    ELSE BLessAt(a, b, BTop([i \in 1..Len(a) |-> IF a[i] = b[i] THEN 0 ELSE 1]))

BLeq(a, b) == ~BLess(b, a)

BSquare(a) == BMul(a, a)

RECURSIVE BPow(_, _)
BPow(a, e) ==
    IF e = 0 THEN <<1>>
    ELSE IF e % 2 = 0 THEN BSquare(BPow(a, e \div 2))
    ELSE BMul(a, BPow(a, e - 1))

----------------------------------------------------------------------------
(* binary64 values: finite n/d, inf or nan *)

\* 2^1024 - 2^970 = 2^970 * (2^27 - 1) * (2^27 + 1): the least real that
\* round-to-nearest takes to inf
OverflowAt ==
    BMul(BPow(<<2>>, 970), BMul(BFromInt(134217727), BFromInt(134217729)))

\* n/d < Base^(Len(n) - Len(d) + 1): up to 102 limbs of difference the value
\* is below 10^306 and needs no comparison with OverflowAt
Overflows(n, d) ==
    /\ Len(n) - Len(d) + 1 > 102
    /\ BLeq(BMul(d, OverflowAt), n)

Fin(n, d) == [k |-> "fin", n |-> n, d |-> d]
Inf == [k |-> "inf", n |-> <<>>, d |-> <<>>]
NaN == [k |-> "nan", n |-> <<>>, d |-> <<>>]

\* the value of the exact result n/d (d > 0) as binary64 holds it
Rnd(n, d) == IF Overflows(n, d) THEN Inf ELSE Fin(n, d)

\* the literal or integer n/d, d > 0
R(n, d) == Rnd(BFromInt(n), BFromInt(d))

IsZero(x) == x.k = "fin" /\ x.n = <<>>

FMul(x, y) ==
    IF x.k = "nan" \/ y.k = "nan" THEN NaN
    ELSE IF x.k = "inf" \/ y.k = "inf"
         THEN IF IsZero(x) \/ IsZero(y) THEN NaN ELSE Inf
    ELSE Rnd(BMul(x.n, y.n), BMul(x.d, y.d))

FDiv(x, y) ==
    IF x.k = "nan" \/ y.k = "nan" THEN NaN
    ELSE IF x.k = "inf" THEN IF y.k = "inf" THEN NaN ELSE Inf
    ELSE IF y.k = "inf" THEN Fin(<<>>, <<1>>)
    ELSE IF IsZero(y) THEN IF IsZero(x) THEN NaN ELSE Inf
    ELSE Rnd(BMul(x.n, y.d), BMul(x.d, y.n))

FAdd(x, y) ==
    IF x.k = "nan" \/ y.k = "nan" THEN NaN
    ELSE IF x.k = "inf" \/ y.k = "inf" THEN Inf
    ELSE IF x.d = y.d THEN Rnd(BAdd(x.n, y.n), x.d)
    ELSE Rnd(BAdd(BMul(x.n, y.d), BMul(y.n, x.d)), BMul(x.d, y.d))

\* x - y for finite y <= x (the values are unsigned; the script subtracts only
\* inside check_range, where the difference is never negative)
FSub(x, y) ==
    IF x.k = "nan" \/ y.k = "nan" THEN NaN
    ELSE IF x.k = "inf" THEN IF y.k = "inf" THEN NaN ELSE Inf
    ELSE Rnd(BSub(BMul(x.n, y.d), BMul(y.n, x.d)), BMul(x.d, y.d))

\* x < y; every comparison with nan is false
FLt(x, y) ==
    IF x.k = "nan" \/ y.k = "nan" THEN FALSE
    ELSE IF x.k = "inf" THEN FALSE
    ELSE IF y.k = "inf" THEN TRUE
    ELSE BLess(BMul(x.n, y.d), BMul(y.n, x.d))

FLe(x, y) ==
    IF x.k = "nan" \/ y.k = "nan" THEN FALSE
    ELSE IF y.k = "inf" THEN TRUE
    ELSE IF x.k = "inf" THEN FALSE
    ELSE BLeq(BMul(x.n, y.d), BMul(y.n, x.d))

FEq(x, y) == FLe(x, y) /\ FLe(y, x)

\* Python's builtins: min(a, b) is b when b < a, else a; max(a, b) is b
\* when b > a, else a
PyMin(a, b) == IF FLt(b, a) THEN b ELSE a
PyMax(a, b) == IF FLt(a, b) THEN b ELSE a

IsFinite(x) == x.k = "fin" /\ x.d # <<>>
\* the values are unsigned: only nan fails x >= 0
IsNonNeg(x) == x.k # "nan"

----------------------------------------------------------------------------
(* The script's tables *)

Materials == {"MOF-303", "Silica Gel", "Graphene Oxide"}

materials ==
    [mat \in Materials |->
       CASE mat = "MOF-303" ->
              [q_max_g_g |-> R(45, 100), RH50_q_g_g |-> R(35, 100),
               regen_T_C |-> 70, energy_kJ_g |-> R(25, 10),
               cost_USD_kg |-> R(150, 1)]
         [] mat = "Silica Gel" ->
              [q_max_g_g |-> R(25, 100), RH50_q_g_g |-> R(15, 100),
               regen_T_C |-> 90, energy_kJ_g |-> R(30, 10),
               cost_USD_kg |-> R(3, 1)]
         [] mat = "Graphene Oxide" ->
              [q_max_g_g |-> R(30, 100), RH50_q_g_g |-> R(20, 100),
               regen_T_C |-> 80, energy_kJ_g |-> R(28, 10),
               cost_USD_kg |-> R(20, 1)]]

Countries == {"USA", "Saudi Arabia", "UAE", "Jordan", "Germany"}

country_data ==
    [c \in Countries |->
       CASE c = "USA" -> R(15, 100)
         [] c = "Saudi Arabia" -> R(5, 100)
         [] c = "UAE" -> R(10, 100)
         [] c = "Jordan" -> R(18, 100)
         [] c = "Germany" -> R(30, 100)]

----------------------------------------------------------------------------
(* The script, block by block.  g is the script's namespace after the      *)
(* sidebar: material_choice, m_sorbent, rh, temp, cycles, country_choice,  *)
(* energy_price, bottled_price.                                            *)

\* a variant of the banners that also warns on the recommended ranges' ends
InputWarningsStrict(g) ==
    (IF ~(FLt(R(20, 1), g.rh) /\ FLt(g.rh, R(80, 1))) THEN {"rh"} ELSE {})
    \cup (IF ~(FLt(R(15, 1), g.temp) /\ FLt(g.temp, R(40, 1)))
          THEN {"temp"} ELSE {})
    \cup (IF ~(FLt(R(5, 10), g.m_sorbent) /\ FLt(g.m_sorbent, R(50, 1)))
          THEN {"m_sorbent"} ELSE {})
    \cup (IF ~(FLt(R(1, 1), g.cycles) /\ FLt(g.cycles, R(4, 1)))
          THEN {"cycles"} ELSE {})

\* the four st.warning banners, as the set of parameters warned about
InputWarnings(g) ==
    (IF ~(FLe(R(20, 1), g.rh) /\ FLe(g.rh, R(80, 1))) THEN {"rh"} ELSE {})
    \cup (IF ~(FLe(R(15, 1), g.temp) /\ FLe(g.temp, R(40, 1)))
          THEN {"temp"} ELSE {})
    \cup (IF ~(FLe(R(5, 10), g.m_sorbent) /\ FLe(g.m_sorbent, R(50, 1)))
          THEN {"m_sorbent"} ELSE {})
    \cup (IF ~(FLe(R(1, 1), g.cycles) /\ FLe(g.cycles, R(4, 1)))
          THEN {"cycles"} ELSE {})

Epsilon == R(1, 1000000000)

\* variants of the isotherm: without the cap, and capped at the reference
\* uptake instead of the saturation uptake
uptake_isotherm_linear(RH, q_max, RH50_q) == FMul(FDiv(RH, R(50, 1)), RH50_q)

uptake_isotherm_ref_cap(RH, q_max, RH50_q) ==
    PyMin(RH50_q, FMul(FDiv(RH, R(50, 1)), RH50_q))

uptake_isotherm(RH, q_max, RH50_q) ==
    PyMin(q_max, FMul(FDiv(RH, R(50, 1)), RH50_q))

\* The simulation block, statement by statement: each maps the namespace ns
\* to the namespace with the variable it assigns.
Line98(ns) == ns @@ [row |-> materials[ns.material_choice]]
\* a variant of line 99 with a temperature correction of the uptake
Line99Thermal(ns) ==
    ns @@ [q_ads |->
             FMul(uptake_isotherm(ns.rh, ns.row.q_max_g_g, ns.row.RH50_q_g_g),
                  FDiv(ns.temp, R(25, 1)))]
Line99(ns) ==
    ns @@ [q_ads |-> uptake_isotherm(ns.rh, ns.row.q_max_g_g, ns.row.RH50_q_g_g)]
Line100(ns) ==
    ns @@ [water_adsorbed_g |-> FMul(FMul(ns.q_ads, ns.m_sorbent), R(1000, 1))]
Line101(ns) ==
    ns @@ [water_per_cycle_L |-> FDiv(ns.water_adsorbed_g, R(1000, 1))]
Line102(ns) == ns @@ [daily_yield_L |-> FMul(ns.water_per_cycle_L, ns.cycles)]
Line103(ns) == ns @@ [annual_yield_L |-> FMul(ns.daily_yield_L, R(365, 1))]
Line106(ns) ==
    ns @@ [energy_kJ |-> FMul(ns.row.energy_kJ_g, ns.water_adsorbed_g)]
Line107(ns) == ns @@ [energy_kWh |-> FDiv(ns.energy_kJ, R(3600, 1))]
\* variants of the divisors: line 108 without the epsilon, line 115 without
\* the guard, line 118 with min for max
Divisor108NoEpsilon(ns) == ns @@ [divisor_108 |-> ns.water_per_cycle_L]
Divisor115Unguarded(ns) == ns @@ [divisor_115 |-> ns.lifetime_water_L]
Divisor118Min(ns) == ns @@ [divisor_118 |-> PyMin(ns.water_per_cycle_L, Epsilon)]
\* divisor_108, divisor_115 and divisor_118 are the values of the divisors of
\* lines 108, 115 and 118
Divisor108(ns) == ns @@ [divisor_108 |-> FAdd(ns.water_per_cycle_L, Epsilon)]
Line108(ns) == ns @@ [energy_per_L |-> FDiv(ns.energy_kJ, ns.divisor_108)]
Line111(ns) == ns @@ [sorbent_cost |-> FMul(ns.row.cost_USD_kg, ns.m_sorbent)]
Line112(ns) == ns @@ [days_lifetime |-> R(365 * 3, 1)]
Line113(ns) ==
    ns @@ [total_cycles_lifetime |-> FMul(ns.days_lifetime, ns.cycles)]
Line114(ns) ==
    ns @@ [lifetime_water_L |->
             FMul(ns.water_per_cycle_L, ns.total_cycles_lifetime)]
Divisor115(ns) == ns @@ [divisor_115 |-> PyMax(ns.lifetime_water_L, Epsilon)]
Line115(ns) ==
    ns @@ [sorbent_cost_per_L |-> FDiv(ns.sorbent_cost, ns.divisor_115)]
Line117(ns) ==
    ns @@ [energy_cost_cycle |-> FMul(ns.energy_kWh, ns.energy_price)]
Divisor118(ns) == ns @@ [divisor_118 |-> PyMax(ns.water_per_cycle_L, Epsilon)]
Line118(ns) ==
    ns @@ [energy_cost_per_L |-> FDiv(ns.energy_cost_cycle, ns.divisor_118)]
Line120(ns) ==
    ns @@ [total_cost_per_L |->
             FAdd(ns.energy_cost_per_L, ns.sorbent_cost_per_L)]

Simulation(g) ==
    Line120(Line118(Divisor118(Line117(
    Line115(Divisor115(Line114(Line113(Line112(Line111(
    Line108(Divisor108(Line107(Line106(
    Line103(Line102(Line101(Line100(Line99(Line98(g))))))))))))))))))))

\* a variant of the comparison with its operands exchanged
ComparisonExchanged(total_cost_per_L, bottled) ==
    IF FLt(bottled, total_cost_per_L) THEN {"success"} ELSE {"error"}

\* the st.success / st.error elements the comparison writes
Comparison(total_cost_per_L, bottled) ==
    IF FLt(total_cost_per_L, bottled) THEN {"success"} ELSE {"error"}

\* check_range's body, statement by statement on its locals loc
Line154(loc) == loc @@ [span |-> FSub(loc.max_val, loc.min_val)]
Line155(loc) ==
    loc @@ [lower_band |-> FAdd(loc.min_val, FMul(loc.tol, loc.span))]
Line156(loc) ==
    loc @@ [upper_band |-> FSub(loc.max_val, FMul(loc.tol, loc.span))]
\* a variant of line 157 that counts the bands' ends as Borderline
Line157Inclusive(loc) ==
    IF FLe(loc.value, loc.lower_band) \/ FLe(loc.upper_band, loc.value)
    THEN "Borderline"
    ELSE "OK"
Line157(loc) ==
    IF FLt(loc.value, loc.lower_band) \/ FLt(loc.upper_band, loc.value)
    THEN "Borderline"
    ELSE "OK"

check_range(value, min_val, max_val, tol) ==
    IF FLe(min_val, value) /\ FLe(value, max_val)
    THEN Line157(Line156(Line155(Line154(
             [value |-> value, min_val |-> min_val, max_val |-> max_val,
              tol |-> tol]))))
    ELSE "Outside"

\* the default of check_range's tol parameter
DefaultTol == R(5, 100)

\* the Status column of validation_data, by parameter
validation_data(g) ==
    [rh        |-> check_range(g.rh, R(20, 1), R(80, 1), DefaultTol),
     temp      |-> check_range(g.temp, R(15, 1), R(40, 1), DefaultTol),
     m_sorbent |-> check_range(g.m_sorbent, R(5, 10), R(50, 1), DefaultTol),
     cycles    |-> check_range(g.cycles, R(1, 1), R(4, 1), DefaultTol)]

\* line 69: the country's price joins the widgets' values
Sidebar(w) == w @@ [energy_price |-> country_data[w.country_choice]]

\* what the script writes from its namespace ns
Page(ns) ==
    [warnings |-> InputWarnings(ns),
     sim |-> ns,
     verdict |-> Comparison(ns.total_cost_per_L, ns.bottled_price),
     Status |-> validation_data(ns)]

\* one run of the script on the widgets' values w: the page it writes
Script(w) == Page(Simulation(Sidebar(w)))

----------------------------------------------------------------------------
(* The dashboard: the widgets, and a rerun of the script on every change *)

\* how many equal parts of the humidity slider's range are sampled
RhGrid == 2
\* how many of the country selectbox's options (in its order) are offered
NumCountries == 2

\* the values v/unit among lo..hi: n equal subdivisions, and the marked ones
Sampled(lo, hi, n, marks, unit) ==
    {R(v, unit) :
       v \in {lo + ((hi - lo) * k) \div n : k \in 0..n} \cup marks}

\* selectbox over materials["Material"]
material_options == Materials

\* slider 0.1 .. 100.0 (step 0.01), default 5.0: its ends, the default and
\* the recommended range's ends
m_sorbent_options == Sampled(10, 10000, 1, {50, 500}, 100)

\* slider 5 .. 95, default 40
rh_options == Sampled(5, 95, RhGrid, {20, 40}, 1)

\* slider 0 .. 50, default 25
temp_options == Sampled(0, 50, 1, {25}, 1)

\* slider 1 .. 10, default 2
cycles_options == Sampled(1, 10, 1, {2}, 1)

country_list == <<"USA", "Saudi Arabia", "UAE", "Jordan", "Germany">>

\* selectbox over list(country_data.keys())
country_options ==
    {country_list[i] : i \in {j \in 1..Len(country_list) : j <= NumCountries}}

\* number_input 0.10 .. 5.00, default 0.50
bottled_price_options == Sampled(10, 500, 1, {50}, 100)

widgets ==
    [material_choice |-> material_choice, m_sorbent |-> m_sorbent, rh |-> rh,
     temp |-> temp, cycles |-> cycles, country_choice |-> country_choice,
     bottled_price |-> bottled_price]

\* a variant of the rerun that keeps the page shown when only the country
\* changes, as a cache keyed on the other widgets would
RerunMemoised(w) ==
    IF w.country_choice # country_choice THEN page ELSE Script(w)

\* Streamlit reruns the script with the widgets' new values; the page it
\* writes replaces the one shown
Rerun(w) == Script(w)

NoCall == [op |-> "none", args |-> <<>>, done |-> FALSE, result |-> <<>>]

Change(w) ==
    /\ w # widgets
    /\ material_choice' = w.material_choice
    /\ m_sorbent' = w.m_sorbent
    /\ rh' = w.rh
    /\ temp' = w.temp
    /\ cycles' = w.cycles
    /\ country_choice' = w.country_choice
    /\ bottled_price' = w.bottled_price
    /\ page' = Rerun(w)
    /\ UNCHANGED call

SetMaterial ==
    \E v \in material_options :
        Change([widgets EXCEPT !.material_choice = v])

SetSorbentMass ==
    \E v \in m_sorbent_options : Change([widgets EXCEPT !.m_sorbent = v])

SetRH == \E v \in rh_options : Change([widgets EXCEPT !.rh = v])

SetTemp == \E v \in temp_options : Change([widgets EXCEPT !.temp = v])

SetCycles == \E v \in cycles_options : Change([widgets EXCEPT !.cycles = v])

SetCountry ==
    \E v \in country_options : Change([widgets EXCEPT !.country_choice = v])

SetBottledPrice ==
    \E v \in bottled_price_options :
        Change([widgets EXCEPT !.bottled_price = v])

\* the first run: every widget at its default
Defaults ==
    [material_choice |-> "MOF-303", m_sorbent |-> R(500, 100), rh |-> R(40, 1),
     temp |-> R(25, 1), cycles |-> R(2, 1), country_choice |-> "USA",
     bottled_price |-> R(50, 100)]

FirstRun ==
    /\ material_choice = Defaults.material_choice
    /\ m_sorbent = Defaults.m_sorbent
    /\ rh = Defaults.rh
    /\ temp = Defaults.temp
    /\ cycles = Defaults.cycles
    /\ country_choice = Defaults.country_choice
    /\ bottled_price = Defaults.bottled_price
    /\ page = Script(Defaults)

Init == FirstRun /\ call = NoCall

Next ==
    \/ SetMaterial
    \/ SetSorbentMass
    \/ SetRH
    \/ SetTemp
    \/ SetCycles
    \/ SetCountry
    \/ SetBottledPrice

Spec == Init /\ [][Next]_vars

----------------------------------------------------------------------------
(* uptake_isotherm on its own: any profile, any humidity >= 0 *)

\* the largest whole humidity tried
IsoMaxRH == 100
\* the profiles tried beside the catalog's: q_max and RH50_q in 1..IsoMaxQ
\* hundredths, RH50_q above q_max included
IsoMaxQ == 4

\* whole humidities, and the plot's np.linspace(0, 90, 50)
IsoHumidities ==
    {R(k, 1) : k \in 0..IsoMaxRH} \cup {R(90 * k, 49) : k \in 0..49}

IsoProfiles ==
    {[q_max |-> materials[mat].q_max_g_g, RH50_q |-> materials[mat].RH50_q_g_g] :
       mat \in Materials}
    \cup {[q_max |-> R(a, 100), RH50_q |-> R(b, 100)] :
            a \in 1..IsoMaxQ, b \in 1..IsoMaxQ}

IsoInit ==
    /\ FirstRun
    /\ \E prof \in IsoProfiles, RH \in IsoHumidities :
         call = [op |-> "uptake_isotherm",
                 args |-> [RH |-> RH, q_max |-> prof.q_max,
                           RH50_q |-> prof.RH50_q],
                 done |-> FALSE, result |-> <<>>]

IsoReturn ==
    /\ ~call.done
    /\ call' = [call EXCEPT
                  !.done = TRUE,
                  !.result = uptake_isotherm(call.args.RH, call.args.q_max,
                                             call.args.RH50_q)]
    /\ UNCHANGED <<material_choice, m_sorbent, rh, temp, cycles,
                   country_choice, bottled_price, page>>

\* the same profile at another humidity (the plot's loop, a moved slider)
IsoNextHumidity ==
    /\ call.done
    /\ \E RH \in IsoHumidities :
         /\ RH # call.args.RH
         /\ call' = [call EXCEPT
                       !.args.RH = RH,
                       !.result = uptake_isotherm(RH, call.args.q_max,
                                                  call.args.RH50_q)]
    /\ UNCHANGED <<material_choice, m_sorbent, rh, temp, cycles,
                   country_choice, bottled_price, page>>

IsoNext == IsoReturn \/ IsoNextHumidity

SpecIsotherm == IsoInit /\ [][IsoNext]_vars

----------------------------------------------------------------------------
(* The simulation block on its own: inputs beyond the widgets' ranges *)

\* the decimal exponent of the large inputs, and of the largest ones
SafeExp == 100
HugeExp == 306
\* the decimal exponent (negated) of the small inputs
TinyExp == 12

Pow10(e) == BPow(<<10>>, e)
Large(e) == Rnd(Pow10(e), <<1>>)
Small(e) == Rnd(<<1>>, Pow10(e))

YieldMasses == {R(0, 1), Small(TinyExp), R(5, 1), Large(SafeExp), Large(HugeExp)}
YieldHumidities == {R(0, 1), R(40, 1), R(100, 1), Large(SafeExp), Large(HugeExp)}
YieldCycles == {R(0, 1), R(2, 1), Large(SafeExp), Large(HugeExp)}
YieldPrices == {R(0, 1), R(15, 100), Large(SafeExp), Large(HugeExp)}

YieldInit ==
    /\ FirstRun
    /\ \E mat \in Materials, m \in YieldMasses, RH \in YieldHumidities,
          c \in YieldCycles, price \in YieldPrices :
         call = [op |-> "Simulation",
                 args |-> [material_choice |-> mat, m_sorbent |-> m,
                           rh |-> RH, cycles |-> c, energy_price |-> price],
                 done |-> FALSE, result |-> <<>>]

YieldReturn ==
    /\ ~call.done
    /\ call' = [call EXCEPT !.done = TRUE, !.result = Simulation(call.args)]
    /\ UNCHANGED <<material_choice, m_sorbent, rh, temp, cycles,
                   country_choice, bottled_price, page>>

YieldNext == YieldReturn

SpecYield == YieldInit /\ [][YieldNext]_vars

----------------------------------------------------------------------------
(* check_range on its own *)

\* ranges min..max tried beside the script's four: min, max in 0..RangeMax
RangeMax == 4

\* the script's four calls: the range, and the widget's values (in 1/unit)
RangeCalls ==
    {[min_val |-> R(20, 1), max_val |-> R(80, 1), value |-> R(v, 1)] :
       v \in 5..95}
    \cup {[min_val |-> R(15, 1), max_val |-> R(40, 1), value |-> R(v, 1)] :
            v \in 0..50}
    \cup {[min_val |-> R(5, 10), max_val |-> R(50, 1), value |-> R(v, 100)] :
            v \in {10, 49, 50, 51, 297, 298, 500, 4752, 4753, 5000, 5001, 10000}}
    \cup {[min_val |-> R(1, 1), max_val |-> R(4, 1), value |-> R(v, 1)] :
            v \in 1..10}
    \cup {[min_val |-> R(a, 1), max_val |-> R(b, 1), value |-> R(v, 20)] :
            a \in 0..RangeMax, b \in 0..RangeMax, v \in 0..(20 * RangeMax + 20)}

RangeInit ==
    /\ FirstRun
    /\ \E a \in RangeCalls :
         call = [op |-> "check_range", args |-> a, done |-> FALSE,
                 result |-> <<>>]

RangeReturn ==
    /\ ~call.done
    /\ call' = [call EXCEPT
                  !.done = TRUE,
                  !.result = check_range(call.args.value, call.args.min_val,
                                         call.args.max_val, DefaultTol)]
    /\ UNCHANGED <<material_choice, m_sorbent, rh, temp, cycles,
                   country_choice, bottled_price, page>>

RangeNext == RangeReturn

SpecRange == RangeInit /\ [][RangeNext]_vars

----------------------------------------------------------------------------
(* Claims *)

\* the ten fields of the simulation's result
ResultNames ==
    {"water_per_cycle_L", "daily_yield_L", "annual_yield_L", "energy_kJ",
     "energy_kWh", "energy_per_L", "sorbent_cost", "sorbent_cost_per_L",
     "energy_cost_per_L", "total_cost_per_L"}

ResultFields(ns) == [f \in ResultNames |-> ns[f]]

\* the divisors the simulation uses: the literals 50.0 (line 93), 1000
\* (line 101) and 3600 (line 107), and those of lines 108, 115 and 118
Divisors(ns) ==
    {R(50, 1), R(1000, 1), R(3600, 1), ns.divisor_108, ns.divisor_115,
     ns.divisor_118}

YieldSound(ns) ==
    /\ \A dv \in Divisors(ns) : FLe(Epsilon, dv)
    /\ \A f \in ResultNames : IsFinite(ns[f]) /\ IsNonNeg(ns[f])

YieldReturned == call.op = "Simulation" /\ call.done

YieldInputs == {call.args.m_sorbent, call.args.rh, call.args.cycles,
                call.args.energy_price}

IsoReturned == call.op = "uptake_isotherm" /\ call.done

\* the uncapped line through the origin and (50, RH50_q)
IsoLinear(a) == FMul(FDiv(a.RH, R(50, 1)), a.RH50_q)

\* C2: for every humidity >= 0 and every profile, uptake_isotherm(RH, q_max,
\* RH50_q) <= q_max.
C2_UptakeCapped == IsoReturned => FLe(call.result, call.args.q_max)

\* C2's case: a humidity at which the uncapped line is above q_max
C2_Witness == IsoReturned /\ FLt(call.args.q_max, IsoLinear(call.args))

\* the crossover humidity RH* = 50 * q_max / RH50_q
Crossover(a) == FDiv(FMul(R(50, 1), a.q_max), a.RH50_q)

IsoCapHolds ==
    (IsoReturned /\ FLe(Crossover(call.args), call.args.RH))
        => FEq(call.result, call.args.q_max)

IsoMonotoneStep ==
    (/\ IsoReturned
     /\ call'.op = "uptake_isotherm" /\ call'.done
     /\ call'.args.q_max = call.args.q_max
     /\ call'.args.RH50_q = call.args.RH50_q
     /\ FLe(call.args.RH, call'.args.RH))
        => FLe(call.result, call'.result)

\* C3: for a fixed profile uptake_isotherm is non-decreasing in the humidity,
\* and at every humidity at or beyond the crossover RH* = 50 * q_max / RH50_q
\* it is q_max.
C3_MonotoneThenCapped == [](IsoCapHolds) /\ [][IsoMonotoneStep]_vars

\* C3's case: a humidity beyond the crossover, where the cap is the result
C3_Witness ==
    /\ IsoReturned
    /\ FLt(Crossover(call.args), call.args.RH)
    /\ call.result = call.args.q_max

\* the scenario of C4: MOF-303 at 40 % humidity, 5 kg, 2 cycles a day, 0.15
\* USD/kWh (the price of "USA")
Scenario ==
    /\ material_choice = "MOF-303"
    /\ FEq(rh, R(40, 1))
    /\ FEq(m_sorbent, R(5, 1))
    /\ FEq(cycles, R(2, 1))
    /\ FEq(country_data[country_choice], R(15, 100))

\* x rounds to v / 10^4 at four decimals
Approx4(x, v) ==
    FLe(R(10 * v - 5, 100000), x) /\ FLt(x, R(10 * v + 5, 100000))

ScenarioExact(ns) ==
    /\ FEq(ns.q_ads, R(28, 100))
    /\ FEq(ns.water_per_cycle_L, R(14, 10))
    /\ FEq(ns.daily_yield_L, R(28, 10))
    /\ FEq(ns.annual_yield_L, R(1022, 1))
    /\ FEq(ns.energy_kJ, R(3500, 1))
    /\ FEq(ns.sorbent_cost, R(750, 1))
    /\ Approx4(ns.sorbent_cost_per_L, 2446)
    /\ Approx4(ns.energy_cost_per_L, 1042)
    /\ Approx4(ns.total_cost_per_L, 3488)

\* C4 as stated: in the scenario uptakeRatio = 0.28, waterPerCycleL = 1.4,
\* dailyYieldL = 2.8, annualYieldL = 1022, energyPerCycleKJ = 3500,
\* specificEnergyPerL = 2500, sorbentCost = 750, sorbentCostPerL ~ 0.2446,
\* energyCostPerL ~ 0.1042 and totalCostPerL ~ 0.3488.
C4_ScenarioAsStated ==
    Scenario => (ScenarioExact(page.sim) /\ FEq(page.sim.energy_per_L, R(2500, 1)))

\* C4, amended: the same, except that specificEnergyPerL is
\* 3500 / (1.4 + 1e-9): below 2500 by less than 0.00001, and 2500.0 at the
\* one decimal the page shows.
C4_ScenarioWithEpsilon ==
    Scenario =>
        /\ ScenarioExact(page.sim)
        /\ FEq(page.sim.energy_per_L,
               FDiv(R(3500, 1), FAdd(R(14, 10), R(1, 1000000000))))
        /\ FLt(page.sim.energy_per_L, R(2500, 1))
        /\ FLt(R(249999999, 100000), page.sim.energy_per_L)

\* C4's case: the scenario is the first run's, whatever the temperature and
\* the bottled-water price
C4_Witness == Scenario /\ FEq(page.sim.energy_kJ, R(3500, 1))

RangeReturned == call.op = "check_range" /\ call.done

\* value < min + (max - min)/20, and value > max - (max - min)/20, without
\* the subtraction
InLowerMargin(a) ==
    FLt(FMul(R(20, 1), a.value), FAdd(FMul(R(19, 1), a.min_val), a.max_val))
InUpperMargin(a) ==
    FLt(FAdd(FMul(R(19, 1), a.max_val), a.min_val), FMul(R(20, 1), a.value))

InsideRange(a) == FLe(a.min_val, a.value) /\ FLe(a.value, a.max_val)

RangeCase(v, lo, hi) ==
    /\ FEq(call.args.value, R(v, 1))
    /\ FEq(call.args.min_val, R(lo, 1))
    /\ FEq(call.args.max_val, R(hi, 1))

\* C5: check_range with the default 5 % margin returns exactly one of three
\* classes: Outside iff value < min or value > max; Borderline iff
\* min <= value <= max and value is within 5 % of the span of either end
\* (the ends included); OK otherwise.  So 1 and 4 against [1, 4] are
\* Borderline and 40 against [20, 80] is OK.
C5_ThreeClasses ==
    RangeReturned =>
        /\ call.result \in {"Outside", "Borderline", "OK"}
        /\ call.result = "Outside"
             <=> (FLt(call.args.value, call.args.min_val)
                  \/ FLt(call.args.max_val, call.args.value))
        /\ call.result = "Borderline"
             <=> (InsideRange(call.args)
                  /\ (InLowerMargin(call.args) \/ InUpperMargin(call.args)))
        /\ (RangeCase(1, 1, 4) \/ RangeCase(4, 1, 4))
             => call.result = "Borderline"
        /\ RangeCase(40, 20, 80) => call.result = "OK"

\* C5's case: a value on the recommended range's end
C5_Witness ==
    RangeReturned /\ RangeCase(4, 1, 4) /\ call.result = "Borderline"

OthersAtDefault ==
    /\ material_choice = Defaults.material_choice
    /\ m_sorbent = Defaults.m_sorbent
    /\ rh = Defaults.rh
    /\ cycles = Defaults.cycles
    /\ country_choice = Defaults.country_choice

WarnedParameters == {"rh", "temp", "m_sorbent", "cycles"}

TempStep ==
    /\ temp' # temp
    /\ UNCHANGED <<material_choice, m_sorbent, rh, cycles, country_choice>>

TempInert ==
    TempStep =>
        /\ ResultFields(page'.sim) = ResultFields(page.sim)
        /\ page'.sim.q_ads = page.sim.q_ads
        /\ UNCHANGED bottled_price =>
             /\ page'.verdict = page.verdict
             /\ page'.warnings \ {"temp"} = page.warnings \ {"temp"}
             /\ \A p \in WarnedParameters \ {"temp"} :
                  page'.Status[p] = page.Status[p]

C7_PageOfCurrentSelections == page = Script(widgets)

\* C7's case: a page reached through several changes
C7_Witness ==
    /\ material_choice # Defaults.material_choice
    /\ rh # Defaults.rh
    /\ cycles # Defaults.cycles
    /\ country_choice # Defaults.country_choice
    /\ bottled_price # Defaults.bottled_price
    /\ page.sim.energy_price = country_data[country_choice]

\* C8: for humidity, temperature, sorbent mass and cycles, the warning is
\* shown exactly when check_range classifies the value as Outside, and the
\* result and the verdict are shown in either case.
C8_WarningIffOutside ==
    /\ \A p \in WarnedParameters :
         p \in page.warnings <=> page.Status[p] = "Outside"
    /\ ResultNames \subseteq DOMAIN page.sim
    /\ page.verdict # {}

\* C8's case: one parameter warned about, another on the end of its range
C8_Witness ==
    /\ page.warnings = {"rh"}
    /\ page.Status.rh = "Outside"
    /\ page.Status.cycles = "Borderline"
    /\ IsFinite(page.sim.total_cost_per_L)

C10_GuardsIdle ==
    /\ FLt(Epsilon, page.sim.water_per_cycle_L)
    /\ FLt(Epsilon, page.sim.lifetime_water_L)
    /\ page.sim.divisor_115 = page.sim.lifetime_water_L
    /\ page.sim.divisor_118 = page.sim.water_per_cycle_L
    /\ FEq(page.sim.sorbent_cost_per_L,
           FDiv(page.sim.sorbent_cost, page.sim.lifetime_water_L))
    /\ FEq(page.sim.energy_cost_per_L,
           FDiv(page.sim.energy_cost_cycle, page.sim.water_per_cycle_L))

\* C10's case: the smallest harvest the widgets allow
C10_Witness ==
    /\ material_choice = "Silica Gel"
    /\ FEq(m_sorbent, R(1, 10))
    /\ FEq(rh, R(5, 1))
    /\ FEq(cycles, R(1, 1))
    /\ FEq(page.sim.water_per_cycle_L, R(15, 10000))

====
